---- MODULE Spec2Model ----
(***************************************************************************)
(* Model of src/app.py: an assistant that resolves a coin identifier from  *)
(* free text, fetches news, a market snapshot and a price, asks a language *)
(* model for a summary and renders the result.                             *)
(*                                                                         *)
(* Strings are sequences of one-character strings.  The two curly quotes   *)
(* of the source are the characters "RSQUO" and "LSQUO".                   *)
(***************************************************************************)
EXTENDS Integers, Sequences, FiniteSets, TLC

VARIABLES pc, query, coin_name, news_resp, news, market_resp, market_data,
          symbol, exch, price, calls, outcome, ai, shown

vars == <<pc, query, coin_name, news_resp, news, market_resp, market_data,
          symbol, exch, price, calls, outcome, ai, shown>>

(***************************************************************************)
(* Bounds of the model.                                                    *)
(***************************************************************************)
MaxQueryLen == 4
MaxResults == 6
MaxPrice == 2
MaxTail == 2

(***************************************************************************)
(* Python string primitives.                                               *)
(***************************************************************************)
Uppers == <<"A","B","C","D","E","F","G","H","I","J","K","L","M","N","O","P","Q","R","S","T","U","V","W","X","Y","Z">>
Lowers == <<"a","b","c","d","e","f","g","h","i","j","k","l","m","n","o","p","q","r","s","t","u","v","w","x","y","z">>

IsUpperChar(c) == \E i \in 1..Len(Uppers) : Uppers[i] = c
IsLowerChar(c) == \E i \in 1..Len(Lowers) : Lowers[i] = c

LowerChar(c) ==
    IF IsUpperChar(c) THEN Lowers[CHOOSE i \in 1..Len(Uppers) : Uppers[i] = c] ELSE c

UpperChar(c) ==
    IF IsLowerChar(c) THEN Uppers[CHOOSE i \in 1..Len(Lowers) : Lowers[i] = c] ELSE c

\* str.lower()
Lower(s) == [i \in 1..Len(s) |-> LowerChar(s[i])]

\* str.upper()
Upper(s) == [i \in 1..Len(s) |-> UpperChar(s[i])]

\* str.isupper(): at least one cased character and no lower-case one
IsUpper(s) ==
    /\ \E i \in 1..Len(s) : IsUpperChar(s[i])
    /\ \A i \in 1..Len(s) : ~IsLowerChar(s[i])

\* str.capitalize(): first character upper-cased, the rest lower-cased
Capitalize(s) == [i \in 1..Len(s) |-> IF i = 1 THEN UpperChar(s[i]) ELSE LowerChar(s[i])]

\* str.replace(w, new): left to right, non-overlapping occurrences of w
RECURSIVE ReplaceFrom(_, _, _, _)
ReplaceFrom(s, w, new, i) ==
    IF i > Len(s) THEN <<>>
    ELSE IF i + Len(w) - 1 <= Len(s) /\ SubSeq(s, i, i + Len(w) - 1) = w
         THEN new \o ReplaceFrom(s, w, new, i + Len(w))
         ELSE <<s[i]>> \o ReplaceFrom(s, w, new, i + 1)

Replace(s, w, new) == ReplaceFrom(s, w, new, 1)

Whitespace == {" "}

\* str.strip(chars): drop leading and trailing characters of the set
StripSet(s, chars) ==
    LET keep == {i \in 1..Len(s) : s[i] \notin chars}
    IN  IF keep = {} THEN <<>>
        ELSE SubSeq(s, CHOOSE i \in keep : \A j \in keep : i <= j,
                       CHOOSE i \in keep : \A j \in keep : i >= j)

\* str.split()[0] of a string that is not empty after strip()
FirstToken(s) ==
    LET t == StripSet(s, Whitespace)
        ws == {i \in 1..Len(t) : t[i] \in Whitespace}
    IN  IF ws = {} THEN t
        ELSE SubSeq(t, 1, (CHOOSE i \in ws : \A j \in ws : i <= j) - 1)

(***************************************************************************)
(* extract_coin                                                            *)
(***************************************************************************)
noise == <<
      <<"t","e","l","l"," ","m","e"," ","a","b","o","u","t">>,
      <<"w","h","a","t","'","s">>,
      <<"w","h","a","t"," ","i","s">>,
      <<"w","h","a","t","RSQUO","s">>,
      <<"l","a","t","e","s","t">>,
      <<"n","e","w","s">>,
      <<"p","r","i","c","e">>,
      <<"a","n","d">>,
      <<"m","a","r","k","e","t"," ","c","a","p">>,
      <<"a","b","o","u","t">>,
      <<"?">>,
      <<"p","l","e","a","s","e">> >>

\* for w in noise: q = q.replace(w, "")
RECURSIVE RemoveNoise(_, _)
RemoveNoise(q, k) ==
    IF k > Len(noise) THEN q
    ELSE RemoveNoise(Replace(q, noise[k], <<>>), k + 1)

TokenPunct == {" ", ".", ",", "!", "?", "'"}

extract_coin(qry) ==
    LET q0 == Replace(Replace(Lower(qry), <<"RSQUO">>, <<"'">>), <<"LSQUO">>, <<"'">>)
        q1 == StripSet(RemoveNoise(q0, 1), Whitespace)
        t0 == IF q1 # <<>> THEN FirstToken(q1) ELSE <<>>
        token == StripSet(t0, TokenPunct)
    IN  IF IsUpper(token) /\ 3 <= Len(token) /\ Len(token) <= 5
        THEN Lower(token)
        ELSE Lower(token)

(***************************************************************************)
(* Values.  Python's None and JSON's null are records, so that a quote of  *)
(* 0 and "no value" are different values.                                  *)
(***************************************************************************)
None == [some |-> FALSE, v |-> 0]
Some(x) == [some |-> TRUE, v |-> x]

Null == [null |-> TRUE, v |-> 0]
Num(x) == [null |-> FALSE, v |-> x]

\* Python truthiness of an optional number: None and 0 are falsy
Truthy(p) == p.some /\ p.v # 0

Take(s, n) == SubSeq(s, 1, IF Len(s) < n THEN Len(s) ELSE n)

bitcoin == <<"b","i","t","c","o","i","n">>
ethereum == <<"e","t","h","e","r","e","u","m">>
solana == <<"s","o","l","a","n","a">>
BTC == <<"B","T","C">>
ETH == <<"E","T","H">>
SOL == <<"S","O","L">>
USDT == <<"U","S","D","T">>

TICKER_OVERRIDES ==
    [k \in {bitcoin, ethereum, solana} |->
        IF k = bitcoin THEN BTC ELSE IF k = ethereum THEN ETH ELSE SOL]

(***************************************************************************)
(* get_crypto_news: a response is [ok, results]; ok = FALSE stands for any *)
(* exception raised inside the try block (transport, HTTP status, parse).  *)
(* A news item is [id, titled]: titled = FALSE is a record without "title".*)
(***************************************************************************)
NewsLimit == 5

\* variant: the results are returned without the [:5] slice
get_crypto_news_unsliced(coin, resp) ==
    IF resp.ok THEN resp.results ELSE <<>>

get_crypto_news(coin, resp) ==
    IF resp.ok THEN Take(resp.results, NewsLimit) ELSE <<>>

(***************************************************************************)
(* get_market_data: the upstream holds a ranked listing; the request asks  *)
(* for the page start=1, limit=50 of it and the code scans the page.       *)
(***************************************************************************)
ListingStart == 1
ListingLimit == 50

\* variant: the request carries no page limit
ListingPage_unlimited(ranking) == ranking

\* the listings endpoint's answer to params {start, limit}
ListingPage(ranking) ==
    SubSeq(ranking, ListingStart,
           IF Len(ranking) < ListingStart + ListingLimit - 1
           THEN Len(ranking) ELSE ListingStart + ListingLimit - 1)

\* coin["name"].lower() == coin_name.lower() or coin["symbol"].lower() == coin_name.lower()
CoinMatches(rec, coin) ==
    \/ Lower(rec.name) = Lower(coin)
    \/ Lower(rec.symbol) = Lower(coin)

NoSnapshot == [found |-> FALSE]

Snapshot(rec) ==
    [found |-> TRUE, name |-> rec.name, symbol |-> rec.symbol, price |-> rec.price,
     market_cap |-> rec.market_cap, rank |-> rec.cmc_rank,
     change_24h |-> rec.percent_change_24h]

get_market_data(coin, resp) ==
    IF ~resp.ok THEN NoSnapshot
    ELSE LET page == ListingPage(resp.ranking)
             hits == {i \in 1..Len(page) : CoinMatches(page[i], coin)}
         IN  IF hits = {} THEN NoSnapshot
             ELSE Snapshot(page[CHOOSE i \in hits : \A j \in hits : i <= j])

(***************************************************************************)
(* Symbol selection for the price lookup.                                  *)
(***************************************************************************)
\* variant: "if market_data:" without the test of the symbol
SelectSymbol_anysnapshot(md, coin) ==
    IF md.found THEN md.symbol
    ELSE IF coin \in DOMAIN TICKER_OVERRIDES THEN TICKER_OVERRIDES[coin]
    ELSE Upper(coin)

SelectSymbol(md, coin) ==
    IF md.found /\ md.symbol # <<>> THEN md.symbol
    ELSE IF coin \in DOMAIN TICKER_OVERRIDES THEN TICKER_OVERRIDES[coin]
    ELSE Upper(coin)

(***************************************************************************)
(* get_price_from_binance.  ex = [usdt, btc, conv] holds the exchange's    *)
(* answers to the <symbol>USDT, <symbol>BTC and BTCUSDT calls.  An answer  *)
(* is [st, v]: st = "fail" is a transport or HTTP error, st = "bad" a body *)
(* whose price field is missing or unparseable, st = "ok" a price v.       *)
(***************************************************************************)
Fail == [st |-> "fail", v |-> 0]
Bad == [st |-> "bad", v |-> 0]
Quote(x) == [st |-> "ok", v |-> x]

\* float(data["price"]) raises unless the body carries a parseable price
FloatRaises(r) == r.st # "ok"

Raised(cs) == [raised |-> TRUE, value |-> None, calls |-> cs]
Returned(x, cs) == [raised |-> FALSE, value |-> Some(x), calls |-> cs]

\* body of the inner try for pair = f"{symbol}USDT"
TryUsdtPair(sym, ex) ==
    LET cs == <<sym \o USDT>>
    IN  IF ex.usdt.st = "fail" THEN Raised(cs)
        ELSE IF FloatRaises(ex.usdt) THEN Raised(cs)
        ELSE Returned(ex.usdt.v, cs)

\* variant: the BTC-denominated price is returned unconverted
BtcProduct_unconverted(a, b) == a

BtcProduct(a, b) == a * b

\* variant: a failed BTCUSDT call is ignored and the BTC price returned
TryBtcPair_noconv(sym, ex) ==
    LET c1 == <<sym \o BTC>>
        c2 == <<sym \o BTC, BTC \o USDT>>
    IN  IF ex.btc.st = "fail" THEN Raised(c1)
        ELSE IF FloatRaises(ex.btc) THEN Raised(c2)
        ELSE IF ex.conv.st # "ok" THEN Returned(ex.btc.v, c2)
        ELSE Returned(BtcProduct(ex.btc.v, ex.conv.v), c2)

\* body of the inner try for pair = f"{symbol}BTC"
TryBtcPair(sym, ex) ==
    LET c1 == <<sym \o BTC>>
        c2 == <<sym \o BTC, BTC \o USDT>>
    IN  IF ex.btc.st = "fail" THEN Raised(c1)
        ELSE IF ex.conv.st = "fail" THEN Raised(c2)
        ELSE IF FloatRaises(ex.btc) \/ FloatRaises(ex.conv) THEN Raised(c2)
        ELSE Returned(BtcProduct(ex.btc.v, ex.conv.v), c2)

\* the for loop with its bare except: continue, then the outer except
PriceLoop(sym, ex) ==
    LET a == TryUsdtPair(sym, ex)
        b == TryBtcPair(sym, ex)
    IN  IF ~a.raised THEN a
        ELSE IF ~b.raised THEN Returned(b.value.v, a.calls \o b.calls)
        ELSE Raised(a.calls \o b.calls)

get_price_from_binance(sym, ex) ==
    LET r == PriceLoop(sym, ex)
    IN  IF r.raised
        THEN [raised |-> FALSE, value |-> None, calls |-> r.calls, error |-> TRUE]
        ELSE [raised |-> FALSE, value |-> r.value, calls |-> r.calls, error |-> FALSE]

(***************************************************************************)
(* generate_ai_response.  out = [kind, text] is what the summarization     *)
(* service does with the request: kind = "ok" answers with text, the other *)
(* kinds are the exceptions of the three handlers.                         *)
(***************************************************************************)
\* {"price": price} if price else None
PriceData(p) == IF Truthy(p) THEN Some(p.v) ELSE None

NA == [na |-> TRUE, v |-> 0]
Shown(x) == [na |-> FALSE, v |-> x]

\* price_str = f"{price_data['price']}" if price_data else "N/A"
PriceStr(price_data) == IF price_data.some THEN Shown(price_data.v) ELSE NA

\* the ",.0f" and ".2f" formats raise TypeError on None; "#{rank}" does not
MetricsFormatRaises(md) ==
    md.found /\ (md.market_cap.null \/ md.change_24h.null)

\* n["title"] raises KeyError on a record without the key
TitlesRaise(nws) == \E i \in 1..Len(nws) : ~nws[i].titled

OllamaFailures == {"connection_error", "ollama_error", "other_error"}

generate_ai_response(coin, nws, price_data, md, out) ==
    IF MetricsFormatRaises(md) \/ TitlesRaise(nws)
    THEN [raised |-> TRUE, called |-> FALSE, text |-> "", error |-> FALSE,
          price_str |-> NA]
    ELSE IF out.kind \in OllamaFailures
    THEN [raised |-> FALSE, called |-> TRUE, text |-> "", error |-> TRUE,
          price_str |-> PriceStr(price_data)]
    ELSE [raised |-> FALSE, called |-> TRUE, text |-> out.text, error |-> FALSE,
          price_str |-> PriceStr(price_data)]

(***************************************************************************)
(* The right column: metrics and news panels.                              *)
(***************************************************************************)
MetricsRaise(md) ==
    md.found /\ (md.price.null \/ md.market_cap.null \/ md.change_24h.null)

\* number of expanders opened by "for item in news[:3]" before item["title"] raises
RECURSIVE Headlines(_, _)
Headlines(nws, i) ==
    IF i > Len(Take(nws, 3)) \/ ~nws[i].titled THEN 0
    ELSE 1 + Headlines(nws, i + 1)

Render(md, nws, p) ==
    IF MetricsRaise(md)
    THEN [raised |-> TRUE, metrics |-> FALSE, binance |-> FALSE, headlines |-> 0]
    ELSE [raised |-> \E i \in 1..Len(Take(nws, 3)) : ~nws[i].titled,
          metrics |-> md.found,
          binance |-> Truthy(p) /\ ~md.found,
          headlines |-> Headlines(nws, 1)]

NotShown == [raised |-> FALSE, metrics |-> FALSE, binance |-> FALSE, headlines |-> 0]

(***************************************************************************)
(* The query pass: one run of the script for one submitted query.          *)
(***************************************************************************)
Call(api, arg) == [api |-> api, arg |-> arg]

\* variant: "if not market_data and news"
IsUnsupported_newsflipped(md, nws) == ~md.found /\ nws # <<>>

\* if not market_data and not news
IsUnsupported(md, nws) == ~md.found /\ nws = <<>>

NoNewsResp == [ok |-> FALSE, results |-> <<>>]
NoMarketResp == [ok |-> FALSE, ranking |-> <<>>]
NoExch == [usdt |-> Fail, btc |-> Fail, conv |-> Fail]
NoOutcome == [kind |-> "none", text |-> ""]
NoAi == [raised |-> FALSE, called |-> FALSE, text |-> "", error |-> FALSE,
         price_str |-> NA]

InitAt(p, q, c) ==
    /\ pc = p
    /\ query = q
    /\ coin_name = c
    /\ news_resp = NoNewsResp
    /\ news = <<>>
    /\ market_resp = NoMarketResp
    /\ market_data = NoSnapshot
    /\ symbol = <<>>
    /\ exch = NoExch
    /\ price = None
    /\ calls = <<>>
    /\ outcome = NoOutcome
    /\ ai = NoAi
    /\ shown = NotShown

\* if query: coin_name = extract_coin(query)
Resolve ==
    /\ pc = "input"
    /\ query # <<>>
    /\ coin_name' = extract_coin(query)
    /\ pc' = "resolved"
    /\ UNCHANGED <<query, news_resp, news, market_resp, market_data, symbol, exch,
                   price, calls, outcome, ai, shown>>

\* news = get_crypto_news(coin_name)
FetchNews(responses) ==
    /\ pc = "resolved"
    /\ \E resp \in responses :
          /\ news_resp' = resp
          /\ news' = get_crypto_news(coin_name, resp)
    /\ calls' = Append(calls, Call("news", Upper(coin_name)))
    /\ pc' = "news_done"
    /\ UNCHANGED <<query, coin_name, market_resp, market_data, symbol, exch, price,
                   outcome, ai, shown>>

\* market_data = get_market_data(coin_name)
FetchMarket(responses) ==
    /\ pc = "news_done"
    /\ \E resp \in responses :
          /\ market_resp' = resp
          /\ market_data' = get_market_data(coin_name, resp)
    /\ calls' = Append(calls, Call("listings", <<>>))
    /\ pc' = "market_done"
    /\ UNCHANGED <<query, coin_name, news_resp, news, symbol, exch, price, outcome,
                   ai, shown>>

\* st.warning(...); st.stop()
Unsupported ==
    /\ pc = "market_done"
    /\ IsUnsupported(market_data, news)
    /\ pc' = "stopped"
    /\ UNCHANGED <<query, coin_name, news_resp, news, market_resp, market_data,
                   symbol, exch, price, calls, outcome, ai, shown>>

ChooseSymbol ==
    /\ pc = "market_done"
    /\ ~IsUnsupported(market_data, news)
    /\ symbol' = SelectSymbol(market_data, coin_name)
    /\ pc' = "symbol_chosen"
    /\ UNCHANGED <<query, coin_name, news_resp, news, market_resp, market_data,
                   exch, price, calls, outcome, ai, shown>>

PriceCalls(cs) == [i \in 1..Len(cs) |-> Call("price", cs[i])]

\* price = get_price_from_binance(symbol)
FetchPrice(responses) ==
    /\ pc = "symbol_chosen"
    /\ \E ex \in responses :
          LET r == get_price_from_binance(symbol, ex)
          IN  /\ exch' = ex
              /\ price' = r.value
              /\ calls' = calls \o PriceCalls(r.calls)
              /\ pc' = IF r.raised THEN "crashed" ELSE "priced"
    /\ UNCHANGED <<query, coin_name, news_resp, news, market_resp, market_data,
                   symbol, outcome, ai, shown>>

\* ai_text = generate_ai_response(coin_name, news, {"price": price} if price else None, market_data)
Analyse(outcomes) ==
    /\ pc = "priced"
    /\ \E out \in outcomes :
          LET r == generate_ai_response(coin_name, news, PriceData(price), market_data, out)
          IN  /\ outcome' = out
              /\ ai' = r
              /\ calls' = IF r.called THEN Append(calls, Call("generate", <<>>)) ELSE calls
              /\ pc' = IF r.raised THEN "crashed" ELSE "analysed"
    /\ UNCHANGED <<query, coin_name, news_resp, news, market_resp, market_data,
                   symbol, exch, price, shown>>

ShowPanels ==
    /\ pc = "analysed"
    /\ shown' = Render(market_data, news, price)
    /\ pc' = IF shown'.raised THEN "crashed" ELSE "rendered"
    /\ UNCHANGED <<query, coin_name, news_resp, news, market_resp, market_data,
                   symbol, exch, price, calls, outcome, ai>>

(***************************************************************************)
(* Inputs.                                                                 *)
(***************************************************************************)
SeqsUpTo(S, n) == UNION {[1..k -> S] : k \in 0..n}

\* queries of the resolver check: every string over a small alphabet
ResolveAlphabet == {"a", "n", "d", "A", "x", " ", "?"}
ResolveQueries == SeqsUpTo(ResolveAlphabet, MaxQueryLen)

\* queries of the pass
PassQueries ==
    { <<>>, <<" ">>, <<"n","e","w","s","?">>, <<"B","T","C">>, solana,
      <<"D","o","g","e">>, <<"E","T","H">>, <<"b","i","t","c","o","i","n","?">> }

Item(i, t) == [id |-> i, titled |-> t]
NewsItems == {Item(1, TRUE), Item(2, TRUE), Item(3, FALSE)}

NewsResponses ==
    {NoNewsResp} \cup {[ok |-> TRUE, results |-> r] : r \in SeqsUpTo(NewsItems, MaxResults)}

PassNewsResponses ==
    { NoNewsResp,
      [ok |-> TRUE, results |-> <<>>],
      [ok |-> TRUE, results |-> <<Item(1, TRUE)>>],
      [ok |-> TRUE, results |-> <<Item(1, TRUE), Item(2, TRUE), Item(1, TRUE), Item(3, FALSE)>>],
      [ok |-> TRUE, results |-> <<Item(2, TRUE), Item(1, TRUE), Item(2, TRUE), Item(1, TRUE),
                                  Item(2, TRUE), Item(3, FALSE)>>] }

Coin(i, n, s, cap) ==
    [id |-> i, name |-> n, symbol |-> s, cmc_rank |-> Num(i), price |-> Num(i),
     market_cap |-> cap, percent_change_24h |-> Num(1)]

Filler == Coin(0, <<"F","i","l","l">>, <<"F","I","L">>, Num(1))

Bitcoin == Coin(1, <<"B","i","t","c","o","i","n">>, BTC, Num(9))
Xbt == Coin(2, <<"B","t","c">>, <<"X","B","T">>, Num(5))
Solana == Coin(3, <<"S","o","l","a","n","a">>, <<>>, Num(3))
Doge == Coin(4, <<"D","o","g","e">>, <<>>, Num(1))
Ethereum == Coin(5, <<"E","t","h","e","r","e","u","m">>, ETH, Null)

CoinRecords == {Bitcoin, Xbt, Solana, Ethereum}

Fillers(n) == [i \in 1..n |-> Filler]

\* rankings: n fillers, then a short tail that straddles the page boundary
Pads == {0} \cup ((ListingLimit - MaxTail)..ListingLimit)

Rankings == {Fillers(n) \o t : n \in Pads, t \in SeqsUpTo(CoinRecords, MaxTail)}

MarketResponses == {NoMarketResp} \cup {[ok |-> TRUE, ranking |-> r] : r \in Rankings}

MarketCoins == {<<>>, <<"b","t","c">>, bitcoin, solana, <<"e","t","h">>}

PassMarketResponses ==
    { NoMarketResp,
      [ok |-> TRUE, ranking |-> <<Filler>>],
      [ok |-> TRUE, ranking |-> <<Filler, Xbt, Bitcoin, Solana, Doge, Ethereum>>] }

Answers == {Fail, Bad} \cup {Quote(x) : x \in 0..MaxPrice}
ExchResponses == [usdt : Answers, btc : Answers, conv : Answers]

PassAnswers == {Fail, Bad, Quote(0), Quote(MaxPrice)}
PassExchResponses == [usdt : PassAnswers, btc : PassAnswers, conv : PassAnswers]

PriceSymbols == {<<>>, BTC, SOL, <<"X","B","T">>}

Outcomes ==
    { [kind |-> "ok", text |-> "summary"], [kind |-> "ok", text |-> ""] }
    \cup {[kind |-> k, text |-> ""] : k \in OllamaFailures}

(***************************************************************************)
(* Specifications.                                                         *)
(***************************************************************************)
\* the whole pass
Init == \E q \in PassQueries : InitAt("input", q, <<>>)

Next ==
    \/ Resolve
    \/ FetchNews(PassNewsResponses)
    \/ FetchMarket(PassMarketResponses)
    \/ Unsupported
    \/ ChooseSymbol
    \/ FetchPrice(PassExchResponses)
    \/ Analyse(Outcomes)
    \/ ShowPanels

Spec == Init /\ [][Next]_vars

\* extract_coin over every query of the alphabet
InitResolve == \E q \in ResolveQueries : InitAt("input", q, <<>>)
NextResolve == Resolve
SpecResolve == InitResolve /\ [][NextResolve]_vars

\* get_crypto_news over every upstream response
InitNews == \E c \in MarketCoins : InitAt("resolved", c, c)
NextNews == FetchNews(NewsResponses)
SpecNews == InitNews /\ [][NextNews]_vars

\* get_market_data over every ranking
InitMarket == \E c \in MarketCoins : InitAt("news_done", c, c)
NextMarket == FetchMarket(MarketResponses)
SpecMarket == InitMarket /\ [][NextMarket]_vars

\* get_price_from_binance over every combination of exchange answers
InitPrice ==
    \E s \in PriceSymbols :
        /\ pc = "symbol_chosen" /\ query = s /\ coin_name = Lower(s)
        /\ news_resp = NoNewsResp /\ news = <<>> /\ market_resp = NoMarketResp
        /\ market_data = NoSnapshot /\ symbol = s /\ exch = NoExch /\ price = None
        /\ calls = <<>> /\ outcome = NoOutcome /\ ai = NoAi /\ shown = NotShown
NextPrice == FetchPrice(ExchResponses)
SpecPrice == InitPrice /\ [][NextPrice]_vars

(***************************************************************************)
(* Properties.                                                             *)
(***************************************************************************)
PastCheck == pc \in {"stopped", "symbol_chosen", "priced", "analysed", "rendered", "crashed"}

NoPriceOrSummaryCall ==
    \A i \in 1..Len(calls) : calls[i].api \notin {"price", "generate"}

IsNoiseWord(t) == \E k \in 1..Len(noise) : noise[k] = t

\* C1: extract_coin returns a lower-case string without leading or trailing
\* whitespace that is not itself an entry of the noise list.
C1_ResolvedIsClean ==
    pc = "resolved" =>
        /\ \A i \in 1..Len(coin_name) : ~IsUpperChar(coin_name[i])
        /\ coin_name # <<>> =>
              coin_name[1] \notin Whitespace /\ coin_name[Len(coin_name)] \notin Whitespace
        /\ ~IsNoiseWord(coin_name)

\* C2: when the market lookup gave no snapshot and the news list is empty,
\* the pass is at the unsupported-coin stop and has issued no price call and
\* no summarization call.
C2_UnsupportedStops ==
    (PastCheck /\ ~market_data.found /\ news = <<>>) =>
        (pc = "stopped" /\ NoPriceOrSummaryCall)

C2_Witness ==
    /\ pc = "stopped"
    /\ ~news_resp.ok
    /\ market_resp.ok
    /\ coin_name # <<>>

\* C3: the symbol of the price lookup is the snapshot's symbol when a
\* snapshot with a non-empty symbol exists, else the override entry when the
\* identifier is a key of the table, else the upper-cased identifier; the
\* first price call is for that symbol's USDT pair.
C3_SymbolPriority ==
    (PastCheck /\ pc # "stopped") =>
        LET tier1 == market_data.found /\ market_data.symbol # <<>>
            tier2 == coin_name \in {bitcoin, ethereum, solana}
        IN  /\ tier1 => symbol = market_data.symbol
            /\ (~tier1 /\ tier2) =>
                   symbol = (IF coin_name = bitcoin THEN BTC
                             ELSE IF coin_name = ethereum THEN ETH ELSE SOL)
            /\ (~tier1 /\ ~tier2) => symbol = Upper(coin_name)
            /\ pc # "symbol_chosen" =>
                   \E i \in 1..Len(calls) :
                       /\ calls[i] = Call("price", symbol \o USDT)
                       /\ \A j \in 1..(i - 1) : calls[j].api # "price"

C3_Witness ==
    /\ pc = "priced"
    /\ market_data.found
    /\ market_data.symbol = <<>>
    /\ coin_name = solana
    /\ symbol = SOL

UsdtOk == exch.usdt.st = "ok"
BtcBranchOk == exch.btc.st = "ok" /\ exch.conv.st = "ok"

\* C4: get_price_from_binance never raises; a valid <symbol>USDT price is
\* returned with no further call; otherwise the <symbol>BTC branch is tried;
\* the result is None exactly when the USDT call fails and the BTC branch
\* fails, a failed BTCUSDT conversion counting as a failure of that branch.
C4_FirstBranchWins ==
    pc # "symbol_chosen" =>
        /\ pc = "priced"
        /\ UsdtOk =>
              /\ price = Some(exch.usdt.v)
              /\ calls = <<Call("price", symbol \o USDT)>>
        /\ ~UsdtOk =>
              /\ Len(calls) >= 2
              /\ calls[1] = Call("price", symbol \o USDT)
              /\ calls[2] = Call("price", symbol \o BTC)
        /\ (price = None) <=> (~UsdtOk /\ ~BtcBranchOk)

C4_Witness ==
    /\ pc = "priced"
    /\ exch.usdt.st = "fail"
    /\ exch.btc.st = "ok"
    /\ exch.conv.st = "fail"
    /\ price = None
    /\ Len(calls) = 3

\* C5: when the <symbol>USDT call fails and the <symbol>BTC and BTCUSDT
\* calls succeed with prices P_btc and P_conv, the result is P_btc * P_conv.
C5_CrossConversion ==
    (pc = "priced" /\ ~UsdtOk /\ BtcBranchOk) =>
        (price.some /\ price.v = exch.btc.v * exch.conv.v)

C5_Witness ==
    /\ pc = "priced"
    /\ exch.usdt.st = "fail"
    /\ exch.btc = Quote(MaxPrice)
    /\ exch.conv = Quote(MaxPrice)
    /\ price = Some(MaxPrice * MaxPrice)

\* C6: generate_ai_response never propagates an exception, returns the
\* empty string on every failure of the summarization service, and the pass
\* goes on to the metrics and news panels.
C6_SummaryNeverRaises ==
    /\ ~ai.raised
    /\ outcome.kind \in OllamaFailures =>
          (ai.text = "" /\ pc \in {"analysed", "rendered"})

\* C7: an empty identifier ends the pass at the unsupported-coin stop with
\* no price call and no summarization call, whatever the news and market
\* endpoints answer.
C7_EmptyIdentifierStops ==
    (PastCheck /\ coin_name = <<>>) =>
        (pc = "stopped" /\ NoPriceOrSummaryCall)

FirstPageHits ==
    {i \in 1..Len(market_resp.ranking) :
        /\ i <= 50
        /\ \/ Lower(market_resp.ranking[i].name) = Lower(coin_name)
           \/ Lower(market_resp.ranking[i].symbol) = Lower(coin_name)}

C9_NewsIsShortPrefix ==
    pc = "news_done" =>
        /\ Len(news) <= 5
        /\ news_resp.ok =>
              /\ Len(news) <= Len(news_resp.results)
              /\ \A i \in 1..Len(news) : news[i] = news_resp.results[i]
        /\ ~news_resp.ok => news = <<>>

C9_Witness ==
    /\ pc = "news_done"
    /\ news_resp.ok
    /\ Len(news_resp.results) > 5
    /\ Len(news) = 5

\* C10: every value the price fetch returns, a quote of 0 included, is the
\* price of the prompt; "N/A" stands there only when the fetch returned None.
C10_QuoteReachesPrompt ==
    pc \in {"analysed", "rendered"} =>
        /\ price.some => ai.price_str = Shown(price.v)
        /\ ai.price_str = NA => ~price.some

====
